---- MODULE Spec2Model ----
(***************************************************************************)
(* Model of the RAG orchestration core of rag-flask: RAGSystem             *)
(* (src/src/rag_system.py), VectorStoreManager (src/src/vectorstore.py),   *)
(* RAGChain (src/src/rag_chain.py), S3Downloader (src/src/s3_loader.py)    *)
(* and the request handlers of app.py that drive them.  Flask serves       *)
(* requests on threads that share the module-level rag_system object and   *)
(* the two directories DATA_DIR and VECTOR_STORE_DIR; no handler takes a   *)
(* lock.  Every statement of a handler that reads or writes shared state   *)
(* is one step of the thread that runs it.                                 *)
(***************************************************************************)
EXTENDS Integers, Sequences, FiniteSets, TLC

(***************************************************************************)
(* Bounds                                                                  *)
(***************************************************************************)
\* number of requests served over the life of the deployment
MaxCalls == 2
\* number of process crashes (restart keeps the disk, loses the memory)
MaxCrashes == 1

Threads == {"t1", "t2"}

(***************************************************************************)
(* Documents and chunks                                                    *)
(***************************************************************************)
\* a.pdf has text and splits into two chunks; e.pdf is a PDF without any
\* extractable text (PyPDFLoader returns pages with empty text, the
\* splitter returns no chunk for it).
Docs == {"a.pdf", "e.pdf"}

AllChunks == {"a1", "a2", "b1"}

\* c.pdf is not a readable PDF: PyPDFLoader raises on it
Unparseable(d) == d = "c.pdf"

load_and_split_pdf(d) ==
    CASE d = "a.pdf" -> <<"a1", "a2">>
      [] d = "b.PDF" -> <<"b1">>
      [] OTHER -> << >>

\* all orders in which os.listdir can return the names of dir
Listings(dir) ==
    {s \in [1..Cardinality(dir) -> dir] : \A i, j \in DOMAIN s : i # j => s[i] # s[j]}

\* the for loop of load_and_split_all_pdfs: a file that raises is skipped
RECURSIVE ExtendAll(_)
ExtendAll(files) ==
    IF files = << >> THEN << >>
    ELSE (IF Unparseable(Head(files)) THEN << >> ELSE load_and_split_pdf(Head(files)))
             \o ExtendAll(Tail(files))

\* DocumentProcessor.load_and_split_all_pdfs on one directory listing
load_and_split_all_pdfs(listing) == ExtendAll(listing)

\* f.lower().endswith(".pdf")
EndsWithPdf(f) == f \in {"a.pdf", "e.pdf", "missing.pdf", "b.PDF", "c.pdf", "x.pdf"}

\* the *.pdf files that step 3 of initialize_system finds
pdf_files(dir) == {f \in dir : EndsWithPdf(f)}

(***************************************************************************)
(* The persisted index (VECTOR_STORE_DIR) and index objects                *)
(***************************************************************************)
EmptyBag == [c \in AllChunks |-> 0]

\* the collection after adding the chunks of seq to it
AddChunks(bag, seq) ==
    [c \in AllChunks |-> bag[c] + Cardinality({i \in DOMAIN seq : seq[i] = c})]

BagOf(seq) == AddChunks(EmptyBag, seq)

\* from_documents writes the chunks one batch after the other
FirstBatch(seq) == IF seq = << >> THEN << >> ELSE <<Head(seq)>>

RestBatch(seq) == IF seq = << >> THEN << >> ELSE Tail(seq)

\* status of the data in the directory:
\*   "none"     nothing was ever built there
\*   "cleared"  deleted by clear_vector_store, no build finished since
\*   "partial"  a build wrote some chunks and has not finished
\*   "complete" the last build on it ran to its end
\* the Chroma object a constructor call returns: it is bound to the
\* persisted directory and sees what is stored there
IndexOn(d, call) == [id |-> call, chunks |-> d.chunks, status |-> d.status]

None == [none |-> TRUE]

\* a JSON body without a 'question' field
NoQuestion == [str |-> FALSE, chars |-> << >>, absent |-> TRUE]

NoLocals == [force |-> FALSE, chunks |-> << >>, vector_store |-> None, call |-> 0,
             question |-> NoQuestion]

\* a question that is a str, as the sequence of its characters
Str(chars) == [str |-> TRUE, chars |-> chars]

\* a question that is not a str (a JSON number, list or null)
NotStr == [str |-> FALSE, chars |-> << >>]

\* questions a client can send: a proper one, one of two characters, blanks,
\* one that is not a string
Questions == {Str(<<"R", "A", "G", "?">>), Str(<<"h", "i">>), Str(<<" ", " ", " ">>), NotStr}

\* the characters str.strip() removes
Whitespace == {" ", "\t", "\n"}

RECURSIVE lstrip(_)
lstrip(chars) ==
    IF chars # << >> /\ Head(chars) \in Whitespace THEN lstrip(Tail(chars)) ELSE chars

RECURSIVE rstrip(_)
rstrip(chars) ==
    IF chars # << >> /\ chars[Len(chars)] \in Whitespace
    THEN rstrip(SubSeq(chars, 1, Len(chars) - 1))
    ELSE chars

\* str.strip(): leading and trailing whitespace removed, the rest kept
strip_leading_only(chars) == lstrip(chars)
strip(chars) == rstrip(lstrip(chars))

\* len(question.strip())
StripLen(q) == Len(strip(q.chars))

\* not (not isinstance(question, str) or len(question.strip()) < 3)
validate_question(q) == q.str /\ StripLen(q) >= 3

VARIABLES
    dataDir,           \* names of the files in config.DATA_DIR
    disk,              \* config.VECTOR_STORE_DIR: [exists, chunks, status]
    rag_chain,         \* rag_system.rag_chain: None or [vector_store, chain]
    vsm_vector_store,  \* rag_system.vector_store_manager.vector_store
    pc,                \* per thread: the statement it is at
    req,               \* per thread: the request it serves
    loc,               \* per thread: locals of initialize_system
    resp,              \* per thread: the response of its last request
    calls,             \* requests started so far
    crashes,           \* crashes so far
    fetch,             \* the S3Downloader.download_pdf call in progress
    batch,             \* the S3Downloader.download_all_pdfs call in progress
    split,             \* the load_and_split_all_pdfs call in progress
    run,               \* the RAGSystem.run_queries call in progress
    parentDir          \* names of the files in the directory above DATA_DIR

vars == <<dataDir, disk, rag_chain, vsm_vector_store, pc, req, loc, resp, calls, crashes,
          fetch, batch, split, run, parentDir>>

NoResp == [code |-> 0]

NoFetch == [pc |-> "idle", filename |-> "", attempt_number |-> 0, tries |-> << >>,
            result |-> "none"]

NoSplit == [pc |-> "idle", exists |-> TRUE, pdf_files |-> << >>, i |-> 0,
            all_chunks |-> << >>, processed |-> << >>]

NoRun == [pc |-> "idle", questions |-> << >>, i |-> 0, results |-> << >>,
          built |-> FALSE, invoked |-> FALSE]

NoBatch == [pc |-> "idle", pdf_files |-> << >>, i |-> 0, downloaded_files |-> << >>,
            results |-> << >>]

\* RAGConfig.__post_init__ creates both directories; the deployment may
\* start on documents and an index left by an earlier run.
Init ==
    /\ dataDir \in SUBSET Docs
    /\ disk \in {[exists |-> TRUE, chunks |-> EmptyBag, status |-> "none"],
                 [exists |-> TRUE, chunks |-> BagOf(load_and_split_pdf("a.pdf")),
                  status |-> "complete"]}
    /\ rag_chain = None
    /\ vsm_vector_store = None
    /\ pc = [t \in Threads |-> "idle"]
    /\ req = [t \in Threads |-> "none"]
    /\ loc = [t \in Threads |-> NoLocals]
    /\ resp = [t \in Threads |-> NoResp]
    /\ calls = 0
    /\ crashes = 0
    /\ fetch = NoFetch
    /\ batch = NoBatch
    /\ split = NoSplit
    /\ run = NoRun
    /\ parentDir = {}

Go(t, label) == pc' = [pc EXCEPT ![t] = label]

\* an exception leaves initialize_system: the locals are gone
Raise(t, kind) ==
    /\ pc' = [pc EXCEPT ![t] = "raised"]
    /\ loc' = [loc EXCEPT ![t] = [NoLocals EXCEPT !.call = loc[t].call,
                                                  !.force = loc[t].force]]
    /\ resp' = [resp EXCEPT ![t] = [code |-> 0, error |-> kind]]


(***************************************************************************)
(* RAGSystem.initialize_system, statement by statement                     *)
(***************************************************************************)
\* initialize_system with the index cleared ahead of step 1 when forced
InitializeEmbeddings_AfterClear(t) ==
    /\ pc[t] = "embed"
    /\ disk' = IF loc[t].force
               THEN [exists |-> TRUE, chunks |-> EmptyBag, status |-> "cleared"]
               ELSE disk
    /\ \E ok \in BOOLEAN :
         IF ok THEN Go(t, "scan") /\ UNCHANGED <<loc, resp>>
         ELSE Raise(t, "ModelUnavailable")
    /\ UNCHANGED <<dataDir, rag_chain, vsm_vector_store, req, calls, crashes, fetch, batch, split, run, parentDir>>

\* step 1: self.embeddings_manager.initialize_embeddings()
InitializeEmbeddings(t) ==
    /\ pc[t] = "embed"
    /\ \E ok \in BOOLEAN :
         IF ok THEN Go(t, "scan") /\ UNCHANGED <<loc, resp>>
         ELSE Raise(t, "ModelUnavailable")
    /\ UNCHANGED <<dataDir, disk, rag_chain, vsm_vector_store, req, calls, crashes, fetch, batch, split, run, parentDir>>

\* ScanPdfFiles with the test of step 3 made only when an index has to be
\* built: an empty directory is accepted when a usable index is persisted
ScanPdfFiles_UnlessIndexed(t) ==
    /\ pc[t] = "scan"
    /\ IF pdf_files(dataDir) = {} /\ (loc[t].force \/ disk.status # "complete")
       THEN Raise(t, "NoDocuments")
       ELSE Go(t, "split") /\ UNCHANGED <<loc, resp>>
    /\ UNCHANGED <<dataDir, disk, rag_chain, vsm_vector_store, req, calls, crashes, fetch, batch, split, run, parentDir>>

\* step 3: list DATA_DIR, raise FileNotFoundError when it holds no PDF
ScanPdfFiles(t) ==
    /\ pc[t] = "scan"
    /\ IF pdf_files(dataDir) = {}
       THEN Raise(t, "NoDocuments")
       ELSE Go(t, "split") /\ UNCHANGED <<loc, resp>>
    /\ UNCHANGED <<dataDir, disk, rag_chain, vsm_vector_store, req, calls, crashes, fetch, batch, split, run, parentDir>>

\* SplitPdfs without the "if not chunks" test
SplitPdfs_Unchecked(t) ==
    /\ pc[t] = "split"
    /\ \E listing \in Listings(pdf_files(dataDir)) :
         /\ loc' = [loc EXCEPT ![t].chunks = load_and_split_all_pdfs(listing)]
         /\ Go(t, IF loc[t].force THEN "clear" ELSE "load")
         /\ UNCHANGED resp
    /\ UNCHANGED <<dataDir, disk, rag_chain, vsm_vector_store, req, calls, crashes, fetch, batch, split, run, parentDir>>

\* step 4: load_and_split_all_pdfs(), raise ValueError when no chunk results
SplitPdfs(t) ==
    /\ pc[t] = "split"
    /\ \E listing \in Listings(pdf_files(dataDir)) :
         LET chunks == load_and_split_all_pdfs(listing) IN
         IF chunks = << >>
         THEN Raise(t, "NoChunks")
         ELSE /\ loc' = [loc EXCEPT ![t].chunks = chunks]
              /\ Go(t, IF loc[t].force THEN "clear" ELSE "load")
              /\ UNCHANGED resp
    /\ UNCHANGED <<dataDir, disk, rag_chain, vsm_vector_store, req, calls, crashes, fetch, batch, split, run, parentDir>>

\* step 5 without the 'vector_store is None' test: a build follows the load
\* even when the load succeeded
load_vector_store_ThenBuild(t) ==
    /\ pc[t] = "load"
    /\ \E fault \in BOOLEAN :
         IF fault
         THEN /\ Go(t, "create")
              /\ UNCHANGED <<vsm_vector_store, loc, disk>>
         ELSE /\ vsm_vector_store' = IndexOn(disk, loc[t].call)
              /\ loc' = [loc EXCEPT ![t].vector_store = IndexOn(disk, loc[t].call)]
              /\ disk' = [disk EXCEPT !.exists = TRUE]
              /\ Go(t, "create")
    /\ UNCHANGED <<dataDir, rag_chain, req, resp, calls, crashes, fetch, batch, split, run, parentDir>>

\* step 5, not forced: VectorStoreManager.load_vector_store.  Chroma(...) on
\* the directory opens whatever is stored there (an empty directory gives an
\* empty collection); it raises only on a storage fault.
load_vector_store(t) ==
    /\ pc[t] = "load"
    /\ \E fault \in BOOLEAN :
         IF fault
         THEN /\ Go(t, "create")
              /\ UNCHANGED <<vsm_vector_store, loc, disk>>
         ELSE /\ vsm_vector_store' = IndexOn(disk, loc[t].call)
              /\ loc' = [loc EXCEPT ![t].vector_store = IndexOn(disk, loc[t].call)]
              /\ disk' = [disk EXCEPT !.exists = TRUE]
              /\ Go(t, "mkchain")
    /\ UNCHANGED <<dataDir, rag_chain, req, resp, calls, crashes, fetch, batch, split, run, parentDir>>

\* clear without the os.path.exists tests: rmtree is always called
ClearCheck_Unguarded(t) ==
    /\ pc[t] = "clear"
    /\ Go(t, "rmtree")
    /\ UNCHANGED <<dataDir, disk, rag_chain, vsm_vector_store, req, loc, resp, calls, crashes, fetch, batch, split, run, parentDir>>

\* step 5, forced: the os.path.exists tests that guard shutil.rmtree
ClearCheck(t) ==
    /\ pc[t] = "clear"
    /\ Go(t, IF disk.exists THEN "rmtree" ELSE "create")
    /\ UNCHANGED <<dataDir, disk, rag_chain, vsm_vector_store, req, loc, resp, calls, crashes, fetch, batch, split, run, parentDir>>

\* clear_vector_store: shutil.rmtree(persist_directory)
RmTree(t) ==
    /\ pc[t] = "rmtree"
    /\ IF disk.exists
       THEN /\ disk' = [exists |-> FALSE, chunks |-> EmptyBag, status |-> "cleared"]
            /\ Go(t, "makedirs")
            /\ UNCHANGED <<loc, resp>>
       ELSE /\ Raise(t, "StorageError")
            /\ UNCHANGED disk
    /\ UNCHANGED <<dataDir, rag_chain, vsm_vector_store, req, calls, crashes, fetch, batch, split, run, parentDir>>

\* clear_vector_store: os.makedirs(persist_directory, exist_ok=True)
MakeDirs(t) ==
    /\ pc[t] = "makedirs"
    /\ disk' = [disk EXCEPT !.exists = TRUE]
    /\ Go(t, "create")
    /\ UNCHANGED <<dataDir, rag_chain, vsm_vector_store, req, loc, resp, calls, crashes, fetch, batch, split, run, parentDir>>

\* create_vector_store: Chroma.from_documents starts to write the chunks
\* into the collection stored in the directory
FromDocumentsBegin(t) ==
    /\ pc[t] = "create"
    /\ \E fault \in BOOLEAN :
         IF fault
         THEN Raise(t, "StorageError") /\ UNCHANGED disk
         ELSE /\ disk' = [exists |-> TRUE,
                          chunks |-> AddChunks(disk.chunks, FirstBatch(loc[t].chunks)),
                          status |-> "partial"]
              /\ Go(t, "from_documents")
              /\ UNCHANGED <<loc, resp>>
    /\ UNCHANGED <<dataDir, rag_chain, vsm_vector_store, req, calls, crashes, fetch, batch, split, run, parentDir>>

\* create_vector_store: Chroma.from_documents writes the rest and returns;
\* the result is assigned to self.vector_store
FromDocumentsEnd(t) ==
    /\ pc[t] = "from_documents"
    /\ \E fault \in BOOLEAN :
         IF fault
         THEN Raise(t, "StorageError") /\ UNCHANGED <<disk, vsm_vector_store>>
         ELSE LET d == [exists |-> TRUE,
                        chunks |-> AddChunks(disk.chunks, RestBatch(loc[t].chunks)),
                        status |-> "complete"] IN
              /\ disk' = d
              /\ vsm_vector_store' = IndexOn(d, loc[t].call)
              /\ Go(t, "persist")
              /\ UNCHANGED <<loc, resp>>
    /\ UNCHANGED <<dataDir, rag_chain, req, calls, crashes, fetch, batch, split, run, parentDir>>

\* create_vector_store returning a newly opened index object instead of
\* self.vector_store
Persist_Reopen(t) ==
    /\ pc[t] = "persist"
    /\ \E fault \in BOOLEAN :
         IF fault
         THEN Raise(t, "StorageError")
         ELSE /\ loc' = [loc EXCEPT ![t].vector_store = IndexOn(disk, 0)]
              /\ Go(t, "mkchain")
              /\ UNCHANGED resp
    /\ UNCHANGED <<dataDir, disk, rag_chain, vsm_vector_store, req, calls, crashes, fetch, batch, split, run, parentDir>>

\* create_vector_store: self.vector_store.persist(); return self.vector_store
Persist(t) ==
    /\ pc[t] = "persist"
    /\ \E fault \in BOOLEAN :
         IF fault
         THEN Raise(t, "StorageError")
         ELSE /\ loc' = [loc EXCEPT ![t].vector_store = vsm_vector_store]
              /\ Go(t, "mkchain")
              /\ UNCHANGED resp
    /\ UNCHANGED <<dataDir, disk, rag_chain, vsm_vector_store, req, calls, crashes, fetch, batch, split, run, parentDir>>

\* step 6 refusing to replace a session that is already set
MkChain_Once(t) ==
    /\ pc[t] = "mkchain"
    /\ IF rag_chain = None
       THEN /\ rag_chain' = [vector_store |-> loc[t].vector_store, chain |-> FALSE]
            /\ Go(t, "build_chain")
            /\ UNCHANGED <<loc, resp>>
       ELSE Raise(t, "ChainError") /\ UNCHANGED rag_chain
    /\ UNCHANGED <<dataDir, disk, vsm_vector_store, req, calls, crashes, fetch, batch, split, run, parentDir>>

\* step 6: self.rag_chain = RAGChain(self.config, vector_store)
MkChain(t) ==
    /\ pc[t] = "mkchain"
    /\ rag_chain' = [vector_store |-> loc[t].vector_store, chain |-> FALSE]
    /\ Go(t, "build_chain")
    /\ UNCHANGED <<dataDir, disk, vsm_vector_store, req, loc, resp, calls, crashes, fetch, batch, split, run, parentDir>>

\* step 6: self.rag_chain.build_chain(); return self.rag_chain
BuildChain(t) ==
    /\ pc[t] = "build_chain"
    /\ \E fault \in BOOLEAN :
         IF fault
         THEN Raise(t, "ChainError") /\ UNCHANGED rag_chain
         ELSE /\ rag_chain' = [rag_chain EXCEPT !.chain = TRUE]
              /\ Go(t, "returned")
              /\ UNCHANGED <<loc, resp>>
    /\ UNCHANGED <<dataDir, disk, vsm_vector_store, req, calls, crashes, fetch, batch, split, run, parentDir>>


(***************************************************************************)
(* Request handlers of app.py                                              *)
(***************************************************************************)
Begin(t, kind, label, locals) ==
    /\ pc[t] = "idle"
    /\ calls < MaxCalls
    /\ calls' = calls + 1
    /\ req' = [req EXCEPT ![t] = kind]
    /\ loc' = [loc EXCEPT ![t] = [locals EXCEPT !.call = calls + 1]]
    /\ resp' = [resp EXCEPT ![t] = NoResp]
    /\ Go(t, label)

\* the handler is done: its response is in resp[t]
Reply(t, r) ==
    /\ resp' = [resp EXCEPT ![t] = r]
    /\ loc' = [loc EXCEPT ![t] = NoLocals]
    /\ req' = [req EXCEPT ![t] = "none"]
    /\ Go(t, "done")

\* the response has been sent, the thread is free for the next request
Finish(t) ==
    /\ pc[t] = "done"
    /\ resp' = [resp EXCEPT ![t] = NoResp]
    /\ Go(t, "idle")
    /\ UNCHANGED <<dataDir, disk, rag_chain, vsm_vector_store, req, loc, calls, crashes, fetch, batch, split, run, parentDir>>

\* POST /api/rebuild: rag_system.initialize_system(force_rebuild=True)
api_rebuild(t) ==
    /\ Begin(t, "rebuild", "embed", [NoLocals EXCEPT !.force = TRUE])
    /\ UNCHANGED <<dataDir, disk, rag_chain, vsm_vector_store, crashes, fetch, batch, split, run, parentDir>>

\* the configured language-model identifier
LLM_MODEL == "config.LLM_MODEL"

\* a health check that makes sure the system is initialized first
health_initializing(t) ==
    /\ pc[t] = "idle"
    /\ calls < MaxCalls
    /\ calls' = calls + 1
    /\ resp' = [resp EXCEPT ![t] = [code |-> 200, status |-> "healthy",
                                    vector_store_loaded |-> rag_chain # None,
                                    model |-> LLM_MODEL]]
    /\ Go(t, IF rag_chain = None THEN "embed" ELSE "done")
    /\ UNCHANGED <<dataDir, disk, rag_chain, vsm_vector_store, req, loc, crashes, fetch, batch, split, run, parentDir>>

\* GET /health
health(t) ==
    /\ pc[t] = "idle"
    /\ calls < MaxCalls
    /\ calls' = calls + 1
    /\ resp' = [resp EXCEPT ![t] = [code |-> 200, status |-> "healthy",
                                    vector_store_loaded |-> rag_chain # None,
                                    model |-> LLM_MODEL]]
    /\ Go(t, "done")
    /\ UNCHANGED <<dataDir, disk, rag_chain, vsm_vector_store, req, loc, crashes, fetch, batch, split, run, parentDir>>

\* a request without an X-API-Key header or api_key parameter
NoKey == ""

\* the API keys a client can send: the key of an active user, a key of no
\* active user, none
ApiKeys == {"valid-key", "unknown-key", NoKey}

\* require_api_key: the 401 answer, or "ok" when the handler is called
require_api_key(api_key) ==
    CASE api_key = NoKey -> "API key is missing"
      [] api_key # "valid-key" -> "Invalid or expired API key"
      [] OTHER -> "ok"

\* a handler answers without calling the RAG system
Reject(t, r) ==
    /\ pc[t] = "idle"
    /\ calls < MaxCalls
    /\ calls' = calls + 1
    /\ resp' = [resp EXCEPT ![t] = r]
    /\ Go(t, "done")
    /\ UNCHANGED <<req, loc>>

\* POST /api/ask without the test of the question in the handler
api_ask_unvalidated(t) ==
    /\ \E q \in Questions \cup {NoQuestion}, api_key \in ApiKeys :
         LET request == [question |-> q, api_key |-> api_key] IN
         IF require_api_key(api_key) # "ok"
         THEN Reject(t, [code |-> 401, error |-> require_api_key(api_key),
                         request |-> request])
         ELSE IF q = NoQuestion
         THEN Reject(t, [code |-> 400, error |-> "Question is required",
                         request |-> request])
         ELSE Begin(t, "ask", "auto_init", [NoLocals EXCEPT !.question = q])
    /\ UNCHANGED <<dataDir, disk, rag_chain, vsm_vector_store, crashes, fetch, batch, split, run, parentDir>>

\* POST /api/ask, up to the call of initialize_rag_system(): require_api_key,
\* then the tests of the JSON body; resp keeps the request that was refused
api_ask(t) ==
    /\ \E q \in Questions \cup {NoQuestion}, api_key \in ApiKeys :
         LET request == [question |-> q, api_key |-> api_key] IN
         IF require_api_key(api_key) # "ok"
         THEN Reject(t, [code |-> 401, error |-> require_api_key(api_key),
                         request |-> request])
         ELSE IF q = NoQuestion
         THEN Reject(t, [code |-> 400, error |-> "Question is required",
                         request |-> request])
         ELSE IF ~validate_question(q)
         THEN Reject(t, [code |-> 400, error |-> "InvalidInput", request |-> request])
         ELSE Begin(t, "ask", "auto_init", [NoLocals EXCEPT !.question = q])
    /\ UNCHANGED <<dataDir, disk, rag_chain, vsm_vector_store, crashes, fetch, batch, split, run, parentDir>>

\* initialize_rag_system(): initialize_system() only when rag_chain is None
initialize_rag_system(t) ==
    /\ pc[t] = "auto_init"
    /\ Go(t, IF rag_chain = None THEN "embed" ELSE "query")
    /\ UNCHANGED <<dataDir, disk, rag_chain, vsm_vector_store, req, loc, resp, calls, crashes, fetch, batch, split, run, parentDir>>

\* initialize_system returned to the handler that called it
HandlerReturn(t) ==
    /\ pc[t] = "returned"
    /\ IF req[t] = "ask"
       THEN Go(t, "query") /\ UNCHANGED <<req, loc, resp>>
       ELSE Reply(t, [code |-> 200, status |-> "success"])
    /\ UNCHANGED <<dataDir, disk, rag_chain, vsm_vector_store, calls, crashes, fetch, batch, split, run, parentDir>>

\* initialize_system raised: the except clause of the handler answers 500
HandlerExcept(t) ==
    /\ pc[t] = "raised"
    /\ Reply(t, [code |-> IF req[t] = "upload" THEN 200 ELSE 500, error |-> resp[t].error])
    /\ UNCHANGED <<dataDir, disk, rag_chain, vsm_vector_store, calls, crashes, fetch, batch, split, run, parentDir>>

\* rag_system.rag_chain.query(question) up to self.chain.invoke: validate the
\* question, build the chain when the session has none
RAGChain_query(t) ==
    /\ pc[t] = "query"
    /\ IF ~validate_question(loc[t].question)
       THEN Reply(t, [code |-> 500, error |-> "InvalidInput"]) /\ UNCHANGED rag_chain
       ELSE IF rag_chain.chain
       THEN /\ loc' = [loc EXCEPT ![t].vector_store = rag_chain.vector_store]
            /\ Go(t, "invoke")
            /\ UNCHANGED <<req, resp, rag_chain>>
       ELSE \E fault \in BOOLEAN :
              IF fault
              THEN Reply(t, [code |-> 500, error |-> "ChainError"]) /\ UNCHANGED rag_chain
              ELSE /\ rag_chain' = [rag_chain EXCEPT !.chain = TRUE]
                   /\ loc' = [loc EXCEPT ![t].vector_store = rag_chain.vector_store]
                   /\ Go(t, "invoke")
                   /\ UNCHANGED <<req, resp>>
    /\ UNCHANGED <<dataDir, disk, vsm_vector_store, calls, crashes, fetch, batch, split, run, parentDir>>

\* what a retrieval through index object vs reads.  The object is a client of
\* the persisted directory: depending on the Chroma release it answers from
\* what it holds in memory since it was constructed or from what the
\* directory holds now.
Views(vs) == {vs, IndexOn(disk, vs.id)}

\* chain.invoke wrapped in a retry: a generation failure starts the query again
Invoke_Retry(t) ==
    /\ pc[t] = "invoke"
    /\ \/ \E v \in Views(loc[t].vector_store) :
            Reply(t, [code |-> 200, answer |-> TRUE, served |-> v])
       \/ Go(t, "query") /\ UNCHANGED <<req, loc, resp>>
    /\ UNCHANGED <<dataDir, disk, rag_chain, vsm_vector_store, calls, crashes, fetch, batch, split, run, parentDir>>

\* self.chain.invoke(question): retrieval, prompt, language model
Invoke(t) ==
    /\ pc[t] = "invoke"
    /\ \/ \E v \in Views(loc[t].vector_store) :
            Reply(t, [code |-> 200, answer |-> TRUE, served |-> v])
       \/ Reply(t, [code |-> 500, error |-> "GenerationError"])
    /\ UNCHANGED <<dataDir, disk, rag_chain, vsm_vector_store, calls, crashes, fetch, batch, split, run, parentDir>>

\* the process dies and is started again: memory is lost, the directories
\* stay as they are; RAGConfig.__post_init__ recreates a missing directory
Crash ==
    /\ crashes < MaxCrashes
    /\ crashes' = crashes + 1
    /\ \E t \in Threads : pc[t] # "idle"
    /\ pc' = [t \in Threads |-> "idle"]
    /\ req' = [t \in Threads |-> "none"]
    /\ loc' = [t \in Threads |-> NoLocals]
    /\ resp' = [t \in Threads |-> NoResp]
    /\ rag_chain' = None
    /\ vsm_vector_store' = None
    /\ disk' = [disk EXCEPT !.exists = TRUE]
    /\ UNCHANGED <<dataDir, calls, fetch, batch, split, run, parentDir>>

Next ==
    \/ \E t \in Threads :
         \/ api_rebuild(t)
         \/ health(t)
         \/ api_ask(t)
         \/ initialize_rag_system(t)
         \/ InitializeEmbeddings(t)
         \/ ScanPdfFiles(t)
         \/ SplitPdfs(t)
         \/ load_vector_store(t)
         \/ ClearCheck(t)
         \/ RmTree(t)
         \/ MakeDirs(t)
         \/ FromDocumentsBegin(t)
         \/ FromDocumentsEnd(t)
         \/ Persist(t)
         \/ MkChain(t)
         \/ BuildChain(t)
         \/ HandlerReturn(t)
         \/ HandlerExcept(t)
         \/ RAGChain_query(t)
         \/ Invoke(t)
         \/ Finish(t)
    \/ Crash

Spec == Init /\ [][Next]_vars

\* single-threaded use: one request at a time
NextSeq ==
    \/ \E t \in {"t1"} :
         \/ api_rebuild(t)
         \/ health(t)
         \/ api_ask(t)
         \/ initialize_rag_system(t)
         \/ InitializeEmbeddings(t)
         \/ ScanPdfFiles(t)
         \/ SplitPdfs(t)
         \/ load_vector_store(t)
         \/ ClearCheck(t)
         \/ RmTree(t)
         \/ MakeDirs(t)
         \/ FromDocumentsBegin(t)
         \/ FromDocumentsEnd(t)
         \/ Persist(t)
         \/ MkChain(t)
         \/ BuildChain(t)
         \/ HandlerReturn(t)
         \/ HandlerExcept(t)
         \/ RAGChain_query(t)
         \/ Invoke(t)
         \/ Finish(t)
    \/ Crash

SpecSeq == Init /\ [][NextSeq]_vars

(***************************************************************************)
(* S3Downloader.download_pdf under @retry(stop=stop_after_attempt(3),      *)
(* wait=wait_exponential(multiplier=1, min=4, max=10))                     *)
(***************************************************************************)
\* stop_after_attempt(3)
MaxAttempts == 3

\* object names a caller can ask for
Names == Docs \cup {"missing.pdf"}

\* Error codes of a botocore ClientError; "network" stands for an exception
\* that is not a ClientError (connection or endpoint failure)
Codes == {"404", "403", "NoSuchKey", "NoSuchBucket", "500"}

\* what head_object and download_file can do in one attempt; download_file
\* is reached only when head_object succeeded
S3Outcomes ==
    {<<h, "-">> : h \in Codes \cup {"network"}}
        \cup {<<"ok", d>> : d \in {"ok"} \cup Codes \cup {"network"}}

\* the outer "except ClientError" clause of download_pdf
TranslateClientError(code) ==
    CASE code = "NoSuchKey" -> "FileNotFoundError"
      [] code = "NoSuchBucket" -> "FileNotFoundError"
      [] code = "403" -> "PermissionError"
      [] OTHER -> "ClientError"

\* the body of download_pdf: "ok" or the exception that leaves it
download_pdf_body(h, d) ==
    IF h = "404" THEN "FileNotFoundError"
    ELSE IF h \in Codes THEN TranslateClientError(h)
    ELSE IF h = "network" THEN "ConnectionError"
    ELSE IF d = "ok" THEN "ok"
    ELSE IF d \in Codes THEN TranslateClientError(d)
    ELSE "ConnectionError"

ExceptionKinds == {"FileNotFoundError", "PermissionError", "ClientError", "ConnectionError"}

\* the retry= argument is not given: tenacity retries on every Exception
retry_if_exception_type(kind) == kind \in ExceptionKinds

\* stop_after_attempt off by one
stop_after_attempt_late(attempt_number) == attempt_number > MaxAttempts

stop_after_attempt(attempt_number) == attempt_number >= MaxAttempts

\* the reraise= argument is not given: when the attempts are used up
\* tenacity raises RetryError, which wraps the last attempt
retry_error(last) == "RetryError"

\* the initial state of a deployment in which one download_pdf call is made
InitFetch == Init

\* download_pdf(filename) is called
download_pdf(name) ==
    /\ fetch.pc = "idle"
    /\ fetch' = [NoFetch EXCEPT !.pc = "attempt", !.filename = name, !.attempt_number = 1]
    /\ UNCHANGED <<dataDir, disk, rag_chain, vsm_vector_store, pc, req, loc, resp, calls,
                   crashes, batch, split, run, parentDir>>

\* one attempt, and what tenacity decides after it
DownloadAttempt ==
    /\ fetch.pc = "attempt"
    /\ \E o \in S3Outcomes :
         LET r == download_pdf_body(o[1], o[2])
             tried == [fetch EXCEPT !.tries = Append(fetch.tries, r)] IN
         IF r = "ok"
         THEN /\ fetch' = [tried EXCEPT !.pc = "done", !.result = "ok"]
              /\ dataDir' = dataDir \cup {fetch.filename}
         ELSE /\ UNCHANGED dataDir
              /\ IF ~retry_if_exception_type(r)
                 THEN fetch' = [tried EXCEPT !.pc = "done", !.result = r]
                 ELSE IF stop_after_attempt(fetch.attempt_number)
                 THEN fetch' = [tried EXCEPT !.pc = "done", !.result = retry_error(r)]
                 ELSE fetch' = [tried EXCEPT !.pc = "wait"]
    /\ UNCHANGED <<disk, rag_chain, vsm_vector_store, pc, req, loc, resp, calls, crashes,
                   batch, split, run, parentDir>>

\* the wait between two attempts is over
RetrySleep ==
    /\ fetch.pc = "wait"
    /\ fetch' = [fetch EXCEPT !.pc = "attempt", !.attempt_number = @ + 1]
    /\ UNCHANGED <<dataDir, disk, rag_chain, vsm_vector_store, pc, req, loc, resp, calls,
                   crashes, batch, split, run, parentDir>>

NextFetch ==
    \/ \E name \in Names : download_pdf(name)
    \/ DownloadAttempt
    \/ RetrySleep

SpecFetch == InitFetch /\ [][NextFetch]_vars

\* a call that was started is run to its end
FairSpecFetch == SpecFetch /\ WF_vars(DownloadAttempt) /\ WF_vars(RetrySleep)

(***************************************************************************)
(* S3Downloader.list_pdfs and download_all_pdfs                            *)
(***************************************************************************)
\* keys an S3 bucket can hold
BucketKeys == {"a.pdf", "e.pdf", "notes.txt"}

DATA_DIR == "./data"

\* os.path.join(self.local_path, filename)
local_file(filename) == <<DATA_DIR, filename>>

\* download_all_pdfs is called: list_pdfs() raises, or returns the keys of
\* the bucket that end in .pdf
download_all_pdfs ==
    /\ batch.pc = "idle"
    /\ fetch.pc = "idle"
    /\ \E bucket \in SUBSET BucketKeys :
         \/ batch' = [NoBatch EXCEPT !.pc = "raised"]
         \/ \E listing \in Listings({k \in bucket : EndsWithPdf(k)}) :
              batch' = [NoBatch EXCEPT !.pc = IF listing = << >> THEN "done" ELSE "loop",
                                       !.pdf_files = listing, !.i = 1]
    /\ UNCHANGED <<dataDir, disk, rag_chain, vsm_vector_store, pc, req, loc, resp, calls,
                   crashes, fetch, split, run, parentDir>>

\* for filename in pdf_files: ... self.download_pdf(filename)
BatchCall ==
    /\ batch.pc = "loop"
    /\ fetch.pc = "idle"
    /\ fetch' = [NoFetch EXCEPT !.pc = "attempt", !.filename = batch.pdf_files[batch.i],
                                !.attempt_number = 1]
    /\ batch' = [batch EXCEPT !.pc = "call"]
    /\ UNCHANGED <<dataDir, disk, rag_chain, vsm_vector_store, pc, req, loc, resp, calls,
                   crashes, split, run, parentDir>>

\* the loop of download_all_pdfs without its try/except: the first failure
\* leaves the function
BatchCollect_Abort ==
    /\ batch.pc = "call"
    /\ fetch.pc = "done"
    /\ LET last == batch.i = Len(batch.pdf_files)
           seen == [batch EXCEPT !.results = Append(@, fetch.result), !.i = @ + 1] IN
       IF fetch.result = "ok"
       THEN batch' = [seen EXCEPT !.downloaded_files = Append(@, local_file(fetch.filename)),
                                  !.pc = IF last THEN "done" ELSE "loop"]
       ELSE batch' = [seen EXCEPT !.pc = "done"]
    /\ fetch' = NoFetch
    /\ UNCHANGED <<dataDir, disk, rag_chain, vsm_vector_store, pc, req, loc, resp, calls,
                   crashes, split, run, parentDir>>

\* download_pdf returned or raised: downloaded_files.append(local_path), or
\* except Exception: continue; after the last name return downloaded_files
BatchCollect ==
    /\ batch.pc = "call"
    /\ fetch.pc = "done"
    /\ LET last == batch.i = Len(batch.pdf_files)
           seen == [batch EXCEPT !.results = Append(@, fetch.result), !.i = @ + 1,
                                 !.pc = IF last THEN "done" ELSE "loop"] IN
       IF fetch.result = "ok"
       THEN batch' = [seen EXCEPT !.downloaded_files = Append(@, local_file(fetch.filename))]
       ELSE batch' = seen
    /\ fetch' = NoFetch
    /\ UNCHANGED <<dataDir, disk, rag_chain, vsm_vector_store, pc, req, loc, resp, calls,
                   crashes, split, run, parentDir>>

NextFetchAll ==
    \/ download_all_pdfs
    \/ BatchCall
    \/ DownloadAttempt
    \/ RetrySleep
    \/ BatchCollect

SpecFetchAll == InitFetch /\ [][NextFetchAll]_vars

(***************************************************************************)
(* DocumentProcessor.load_and_split_all_pdfs, file by file                 *)
(***************************************************************************)
\* names a document directory can hold
SplitNames == Docs \cup {"b.PDF", "c.pdf", "notes.txt"}

\* a deployment whose document directory holds any of these files
InitSplit ==
    /\ dataDir \in SUBSET SplitNames
    /\ disk = [exists |-> TRUE, chunks |-> EmptyBag, status |-> "none"]
    /\ rag_chain = None
    /\ vsm_vector_store = None
    /\ pc = [t \in Threads |-> "idle"]
    /\ req = [t \in Threads |-> "none"]
    /\ loc = [t \in Threads |-> NoLocals]
    /\ resp = [t \in Threads |-> NoResp]
    /\ calls = 0
    /\ crashes = 0
    /\ fetch = NoFetch
    /\ batch = NoBatch
    /\ split = NoSplit
    /\ run = NoRun
    /\ parentDir = {}

\* load_and_split_all_pdfs(data_folder) up to the for loop: data_folder is
\* DATA_DIR or a path at which there is no directory
SplitCall ==
    /\ split.pc = "idle"
    /\ \E exists \in BOOLEAN :
         IF ~exists
         THEN split' = [NoSplit EXCEPT !.pc = "done", !.exists = FALSE]
         ELSE \E listing \in Listings(pdf_files(dataDir)) :
                split' = [NoSplit EXCEPT !.pc = IF listing = << >> THEN "done" ELSE "loop",
                                         !.pdf_files = listing, !.i = 1]
    /\ UNCHANGED <<dataDir, disk, rag_chain, vsm_vector_store, pc, req, loc, resp, calls,
                   crashes, fetch, batch, run, parentDir>>

\* the for loop without its try/except: the first file that cannot be
\* processed ends the call with the exception
SplitOne_Abort ==
    /\ split.pc = "loop"
    /\ LET f == split.pdf_files[split.i]
           last == split.i = Len(split.pdf_files) IN
       IF Unparseable(f)
       THEN split' = [split EXCEPT !.pc = "raised", !.processed = Append(@, "error")]
       ELSE split' = [split EXCEPT !.all_chunks = @ \o load_and_split_pdf(f),
                                   !.processed = Append(@, "ok"), !.i = @ + 1,
                                   !.pc = IF last THEN "done" ELSE "loop"]
    /\ UNCHANGED <<dataDir, disk, rag_chain, vsm_vector_store, pc, req, loc, resp, calls,
                   crashes, fetch, batch, run, parentDir>>

\* one round of the for loop: all_chunks.extend(load_and_split_pdf(path)),
\* or except Exception: continue
SplitOne ==
    /\ split.pc = "loop"
    /\ LET f == split.pdf_files[split.i]
           last == split.i = Len(split.pdf_files)
           next == [split EXCEPT !.i = @ + 1, !.pc = IF last THEN "done" ELSE "loop"] IN
       IF Unparseable(f)
       THEN split' = [next EXCEPT !.processed = Append(@, "error")]
       ELSE split' = [next EXCEPT !.all_chunks = @ \o load_and_split_pdf(f),
                                  !.processed = Append(@, "ok")]
    /\ UNCHANGED <<dataDir, disk, rag_chain, vsm_vector_store, pc, req, loc, resp, calls,
                   crashes, fetch, batch, run, parentDir>>

NextSplit ==
    \/ SplitCall
    \/ SplitOne

SpecSplit == InitSplit /\ [][NextSplit]_vars

(***************************************************************************)
(* RAGSystem.run_queries and RAGChain.query, question by question          *)
(***************************************************************************)
MaxQuestionLen == 3

MaxQuestions == 2

\* the characters a question is written with
Alphabet == {"a", " "}

RECURSIVE SeqsUpTo(_, _)
SeqsUpTo(S, n) ==
    IF n = 0 THEN {<< >>}
    ELSE LET shorter == SeqsUpTo(S, n - 1) IN
         shorter \cup {Append(q, x) : q \in shorter, x \in S}

\* what a caller can pass as a question
SessionQuestions == {Str(chars) : chars \in SeqsUpTo(Alphabet, MaxQuestionLen)} \cup {NotStr}

\* the persisted index of a deployment that was built once
BuiltDisk == [exists |-> TRUE, chunks |-> BagOf(load_and_split_pdf("a.pdf")),
              status |-> "complete"]

\* a RAGSystem before initialize_system, after it, and after it with a
\* session whose chain is still to be built
InitSession ==
    /\ dataDir = {"a.pdf"}
    /\ disk = BuiltDisk
    /\ \E ready \in BOOLEAN, chain \in BOOLEAN :
         IF ready
         THEN /\ rag_chain = [vector_store |-> IndexOn(BuiltDisk, 0), chain |-> chain]
              /\ vsm_vector_store = IndexOn(BuiltDisk, 0)
         ELSE /\ rag_chain = None
              /\ vsm_vector_store = None
    /\ pc = [t \in Threads |-> "idle"]
    /\ req = [t \in Threads |-> "none"]
    /\ loc = [t \in Threads |-> NoLocals]
    /\ resp = [t \in Threads |-> NoResp]
    /\ calls = 0
    /\ crashes = 0
    /\ fetch = NoFetch
    /\ batch = NoBatch
    /\ split = NoSplit
    /\ run = NoRun
    /\ parentDir = {}

\* run_queries(questions) up to the for loop: without a session it logs and
\* returns None
run_queries ==
    /\ run.pc = "idle"
    /\ \E questions \in SeqsUpTo(SessionQuestions, MaxQuestions) :
         run' = [NoRun EXCEPT !.questions = questions, !.i = 1,
                              !.pc = IF rag_chain = None THEN "returned_none"
                                     ELSE IF questions = << >> THEN "done"
                                     ELSE "query"]
    /\ UNCHANGED <<dataDir, disk, rag_chain, vsm_vector_store, pc, req, loc, resp, calls,
                   crashes, fetch, batch, split, parentDir>>

\* a chain that keeps the conversation: its answer depends on how many
\* questions the session was asked before
chain_invoke_with_history(question, vector_store) ==
    [question |-> question, context |-> vector_store.chunks, turn |-> Len(run.results)]

\* what self.chain.invoke(question) answers when retriever and model are
\* deterministic: a function of the question and of the retrieved index
chain_invoke(question, vector_store) ==
    [question |-> question, context |-> vector_store.chunks, turn |-> 0]

\* a loop that stops at the first question that fails
Append_result_Abort(outcome, built, invoked) ==
    run' = [run EXCEPT !.results = Append(@, [question |-> run.questions[run.i],
                                              outcome |-> outcome,
                                              answer |-> IF outcome = "answer"
                                                         THEN chain_invoke(run.questions[run.i],
                                                                           rag_chain.vector_store)
                                                         ELSE None,
                                              built |-> built, invoked |-> invoked]),
                       !.i = @ + 1, !.built = FALSE, !.invoked = FALSE,
                       !.pc = IF run.i = Len(run.questions) \/ outcome # "answer"
                              THEN "done" ELSE "query"]

\* results.append(...) and the next round of the loop
Append_result(outcome, built, invoked) ==
    run' = [run EXCEPT !.results = Append(@, [question |-> run.questions[run.i],
                                              outcome |-> outcome,
                                              answer |-> IF outcome = "answer"
                                                         THEN chain_invoke(run.questions[run.i],
                                                                           rag_chain.vector_store)
                                                         ELSE None,
                                              built |-> built, invoked |-> invoked]),
                       !.i = @ + 1, !.built = FALSE, !.invoked = FALSE,
                       !.pc = IF run.i = Len(run.questions) THEN "done" ELSE "query"]

\* RAGChain.query up to self.chain.invoke: the input check, then build_chain
\* when the session has no chain yet
SessionQuery ==
    /\ run.pc = "query"
    /\ IF ~validate_question(run.questions[run.i])
       THEN Append_result("InvalidInput", FALSE, FALSE) /\ UNCHANGED rag_chain
       ELSE IF rag_chain.chain
       THEN run' = [run EXCEPT !.pc = "invoke"] /\ UNCHANGED rag_chain
       ELSE \E fault \in BOOLEAN :
              IF fault
              THEN Append_result("ChainError", TRUE, FALSE) /\ UNCHANGED rag_chain
              ELSE /\ rag_chain' = [rag_chain EXCEPT !.chain = TRUE]
                   /\ run' = [run EXCEPT !.pc = "invoke", !.built = TRUE]
    /\ UNCHANGED <<dataDir, disk, vsm_vector_store, pc, req, loc, resp, calls, crashes,
                   fetch, batch, split, parentDir>>

\* a query whose failure drops the orchestrator's session
SessionInvoke_Reset ==
    /\ run.pc = "invoke"
    /\ \E ok \in BOOLEAN :
         /\ Append_result(IF ok THEN "answer" ELSE "GenerationError", run.built, TRUE)
         /\ rag_chain' = IF ok THEN rag_chain ELSE None
    /\ UNCHANGED <<dataDir, disk, vsm_vector_store, pc, req, loc, resp, calls, crashes,
                   fetch, batch, split, parentDir>>

\* self.chain.invoke(question): retrieval and generation; an exception is
\* re-raised and recorded by run_queries
SessionInvoke ==
    /\ run.pc = "invoke"
    /\ \E ok \in BOOLEAN :
         Append_result(IF ok THEN "answer" ELSE "GenerationError", run.built, TRUE)
    /\ UNCHANGED <<dataDir, disk, rag_chain, vsm_vector_store, pc, req, loc, resp, calls,
                   crashes, fetch, batch, split, parentDir>>

NextSession ==
    \/ run_queries
    \/ SessionQuery
    \/ SessionInvoke

SpecSession == InitSession /\ [][NextSession]_vars

(***************************************************************************)
(* Uploads: upload and api_upload save under DATA_DIR, api_list_documents  *)
(* lists DATA_DIR                                                          *)
(***************************************************************************)
MaxFiles == 2

\* file names a client can send, as path components: plain names, a name
\* that climbs out of the directory, a name in a subdirectory that does not
\* exist, and the empty name
UploadNames == {<<"a.pdf">>, <<"b.PDF">>, <<"notes.txt">>, <<"..", "x.pdf">>,
                <<"sub", "x.pdf">>, << >>}

\* a request without a 'file' part
NoFile == <<"<no file>">>

\* file.filename and file.filename.lower().endswith('.pdf')
allowed_file(filename) == filename # << >> /\ EndsWithPdf(filename[Len(filename)])

\* os.path.join(config.DATA_DIR, file.filename)
os_path_join(dir, filename) == <<dir>> \o filename

\* the path with its ".." components resolved
RECURSIVE normpath(_)
normpath(path) ==
    IF path = << >> THEN << >>
    ELSE LET front == normpath(SubSeq(path, 1, Len(path) - 1))
             last == path[Len(path)] IN
         IF last = ".." /\ front # << >> THEN SubSeq(front, 1, Len(front) - 1)
         ELSE Append(front, last)

\* the directory file.save(filepath) writes in
SaveDir(filepath) == LET path == normpath(filepath) IN SubSeq(path, 1, Len(path) - 1)

\* file.save(filepath): the files of DATA_DIR and of its parent afterwards,
\* or an OSError when the directory of filepath does not exist
Save(files, filename) ==
    LET filepath == os_path_join(DATA_DIR, filename)
        name == filepath[Len(filepath)] IN
    CASE SaveDir(filepath) = <<DATA_DIR>> ->
             [files EXCEPT !.data = @ \cup {name}, !.uploaded = Append(@, filename)]
      [] SaveDir(filepath) = << >> ->
             [files EXCEPT !.parent = @ \cup {name}, !.uploaded = Append(@, filename)]
      [] OTHER -> [files EXCEPT !.outcome = "OSError"]

\* the for loop of upload: save every .pdf, return at the first other file
RECURSIVE SaveAll(_, _)
SaveAll(files, names) ==
    IF names = << >> \/ files.outcome # "ok" THEN files
    ELSE IF Head(names) = << >> THEN SaveAll(files, Tail(names))
    ELSE IF allowed_file(Head(names)) THEN SaveAll(Save(files, Head(names)), Tail(names))
    ELSE [files EXCEPT !.outcome = "invalid"]

\* what api_list_documents returns
listLocalDocuments == pdf_files(dataDir)

\* a request answered without a call of initialize_system
Answer(t, r) ==
    /\ pc[t] = "idle"
    /\ calls < MaxCalls
    /\ calls' = calls + 1
    /\ resp' = [resp EXCEPT ![t] = r]
    /\ Go(t, "done")
    /\ UNCHANGED <<req, loc>>

\* POST /api/upload
api_upload(t) ==
    /\ \E filename \in UploadNames \cup {NoFile} :
         LET saved == Save([data |-> dataDir, parent |-> parentDir, uploaded |-> << >>,
                            outcome |-> "ok"], filename) IN
         IF filename = NoFile
         THEN Answer(t, [code |-> 400, error |-> "No file provided"])
              /\ UNCHANGED <<dataDir, parentDir>>
         ELSE IF ~allowed_file(filename)
         THEN Answer(t, [code |-> 400, error |-> "Invalid file type"])
              /\ UNCHANGED <<dataDir, parentDir>>
         ELSE IF saved.outcome # "ok"
         THEN Answer(t, [code |-> 500, error |-> saved.outcome])
              /\ UNCHANGED <<dataDir, parentDir>>
         ELSE /\ Answer(t, [code |-> 200, status |-> "success", filename |-> filename])
              /\ dataDir' = saved.data
              /\ parentDir' = saved.parent
    /\ UNCHANGED <<disk, rag_chain, vsm_vector_store, crashes, fetch, batch, split, run>>

\* POST /upload up to rag_system.initialize_system(force_rebuild=True)
upload(t) ==
    /\ \E names \in SeqsUpTo(UploadNames, MaxFiles) :
         LET saved == SaveAll([data |-> dataDir, parent |-> parentDir, uploaded |-> << >>,
                               outcome |-> "ok"], names) IN
         /\ dataDir' = saved.data
         /\ parentDir' = saved.parent
         /\ CASE saved.outcome = "OSError" ->
                     Answer(t, [code |-> 500, error |-> "OSError"])
              [] saved.outcome = "invalid" ->
                     Answer(t, [code |-> 200, error |-> "Invalid file type"])
              [] saved.outcome = "ok" /\ saved.uploaded = << >> ->
                     Answer(t, [code |-> 200, error |-> "No valid files uploaded"])
              [] OTHER -> Begin(t, "upload", "embed", [NoLocals EXCEPT !.force = TRUE])
    /\ UNCHANGED <<disk, rag_chain, vsm_vector_store, crashes, fetch, batch, split, run>>

\* GET /api/documents
api_list_documents(t) ==
    /\ Answer(t, [code |-> 200, documents |-> listLocalDocuments])
    /\ UNCHANGED <<dataDir, disk, rag_chain, vsm_vector_store, crashes, fetch, batch, split,
                   run, parentDir>>

\* upload requests arrive one after the other
NextUpload ==
    \E t \in {"t1"} :
       \/ api_upload(t)
       \/ upload(t)
       \/ api_list_documents(t)
       \/ InitializeEmbeddings(t)
       \/ ScanPdfFiles(t)
       \/ SplitPdfs(t)
       \/ ClearCheck(t)
       \/ RmTree(t)
       \/ MakeDirs(t)
       \/ FromDocumentsBegin(t)
       \/ FromDocumentsEnd(t)
       \/ Persist(t)
       \/ MkChain(t)
       \/ BuildChain(t)
       \/ HandlerReturn(t)
       \/ HandlerExcept(t)
       \/ Finish(t)

SpecUpload == Init /\ [][NextUpload]_vars

(***************************************************************************)
(* VectorStoreManager.clear_vector_store called twice in a row             *)
(***************************************************************************)
\* what VECTOR_STORE_DIR can hold when clear_vector_store is called: nothing
\* (the directory was removed by hand), an empty directory, or an index that
\* was written completely or in part
PersistedStates ==
    {[exists |-> FALSE, chunks |-> EmptyBag, status |-> "none"],
     [exists |-> TRUE, chunks |-> EmptyBag, status |-> "none"]}
    \cup {[exists |-> TRUE, chunks |-> b, status |-> st] :
             b \in [AllChunks -> 0..1] \ {EmptyBag}, st \in {"complete", "partial"}}

InitClear ==
    /\ dataDir \in SUBSET Docs
    /\ disk \in PersistedStates
    /\ rag_chain = None
    /\ vsm_vector_store = None
    /\ pc = [t \in Threads |-> "idle"]
    /\ req = [t \in Threads |-> "none"]
    /\ loc = [t \in Threads |-> NoLocals]
    /\ resp = [t \in Threads |-> NoResp]
    /\ calls = 0
    /\ crashes = 0
    /\ fetch = NoFetch
    /\ batch = NoBatch
    /\ split = NoSplit
    /\ run = NoRun
    /\ parentDir = {}

\* a caller starts clear_vector_store()
ClearCall(t) ==
    /\ Begin(t, "clear", "clear", [NoLocals EXCEPT !.force = TRUE])
    /\ UNCHANGED <<dataDir, disk, rag_chain, vsm_vector_store, crashes, fetch, batch, split,
                   run, parentDir>>

\* clear_vector_store returned: the caller notes what is persisted and, the
\* first time, calls it again
ClearReturn(t) ==
    /\ pc[t] = "create"
    /\ req[t] = "clear"
    /\ IF resp[t] = NoResp
       THEN /\ resp' = [resp EXCEPT ![t] = [code |-> 0, first |-> disk]]
            /\ Go(t, "clear")
            /\ UNCHANGED <<req, loc>>
       ELSE Reply(t, [code |-> 200, first |-> resp[t].first, second |-> disk])
    /\ UNCHANGED <<dataDir, disk, rag_chain, vsm_vector_store, calls, crashes, fetch, batch,
                   split, run, parentDir>>

\* the calls are made one after the other
NextClear ==
    \E t \in {"t1"} :
       \/ ClearCall(t)
       \/ ClearCheck(t)
       \/ RmTree(t)
       \/ MakeDirs(t)
       \/ ClearReturn(t)
       \/ Finish(t)

SpecClear == InitClear /\ [][NextClear]_vars

(***************************************************************************)
(* VectorStoreManager.create_vector_store called with any chunk sequence   *)
(***************************************************************************)
MaxChunks == 2

\* a caller starts create_vector_store(chunks, embeddings)
BuildCall(t) ==
    /\ \E chunks \in SeqsUpTo(AllChunks, MaxChunks) :
         Begin(t, "build", "create", [NoLocals EXCEPT !.chunks = chunks])
    /\ UNCHANGED <<dataDir, disk, rag_chain, vsm_vector_store, crashes, fetch, batch, split,
                   run, parentDir>>

\* create_vector_store returned self.vector_store
BuildReturn(t) ==
    /\ pc[t] = "mkchain"
    /\ req[t] = "build"
    /\ Reply(t, [code |-> 200, built_from |-> loc[t].chunks,
                 vector_store |-> loc[t].vector_store])
    /\ UNCHANGED <<dataDir, disk, rag_chain, vsm_vector_store, calls, crashes, fetch, batch,
                   split, run, parentDir>>

\* the calls are made one after the other
NextBuild ==
    \E t \in {"t1"} :
       \/ BuildCall(t)
       \/ FromDocumentsBegin(t)
       \/ FromDocumentsEnd(t)
       \/ Persist(t)
       \/ BuildReturn(t)
       \/ HandlerExcept(t)
       \/ Finish(t)

SpecBuild == Init /\ [][NextBuild]_vars

(***************************************************************************)
(* Properties                                                              *)
(***************************************************************************)
\* thread t is between the start of clear() and the end of build()
InBuild(t) == pc[t] \in {"rmtree", "makedirs", "create", "from_documents", "persist"}

InRebuild(t) == loc[t].force /\ InBuild(t)

\* C1: rebuilds are mutually exclusive: at most one initialize(forceRebuild=
\* true) is between the start of clear() and the end of build() at any time.
C1_RebuildsMutuallyExclusive ==
    Cardinality({t \in Threads : InRebuild(t)}) <= 1

\* C2: a query is served entirely from the old or entirely from the new,
\* fully built index: the index a query reads is never one that has been
\* cleared and not yet rebuilt, or one whose build has not finished.
C2_QuerySeesOldOrNewIndex ==
    \A t \in Threads :
        (pc[t] = "done" /\ resp[t].code = 200 /\ "served" \in DOMAIN resp[t])
            => resp[t].served.status \notin {"cleared", "partial"}

\* C3: whenever initialize raises, the orchestrator reports 'not ready'
\* afterwards: no session is set, so health shows no index loaded and the
\* auto-init wrapper does not take the system for initialized.
C3_FailedInitReportsNotReady ==
    \A t \in Threads : pc[t] = "raised" => rag_chain = None

\* C4: when the persisted index was cleared and no build completed afterwards
\* (crash or failed build; no build is running), load fails, so that
\* initialize falls through to build and no session is bound to an empty or
\* partially written index.
C4_LoadFailsOnClearedIndex ==
    [][\A t \in Threads :
          (/\ pc[t] = "load"
           /\ disk.status \in {"cleared", "partial"}
           /\ \A u \in Threads : ~InBuild(u))
              => pc'[t] # "mkchain"]_vars

\* C5: clear-then-build, never concurrent: build() is never started while a
\* clear() on the persisted location is in progress.
C5_BuildNeverStartsDuringClear ==
    [][\A t \in Threads :
          (pc[t] = "create" /\ pc'[t] = "from_documents")
              => \A u \in Threads : pc[u] \notin {"rmtree", "makedirs"}]_vars

\* C6 (as stated): NoDocuments is raised for an empty directory only when
\* forceRebuild=true or no usable persisted index exists; otherwise the
\* persisted index is loaded.
C6_NoDocumentsOnlyWithoutIndex ==
    \A t \in Threads :
        (pc[t] = "raised" /\ resp[t].error = "NoDocuments")
            => (loc[t].force \/ disk.status # "complete")

\* C6 (amended): initialize with no PDF in the local document directory
\* raises NoDocuments whatever forceRebuild is and whatever is persisted; it
\* loads nothing and changes neither the session nor the persisted index.
C6_EmptyDirectoryAlwaysRaises ==
    [][\A t \in Threads :
          (pc[t] = "scan" /\ pc'[t] \notin {"scan", "idle"} /\ pdf_files(dataDir) = {})
              => /\ pc'[t] = "raised"
                 /\ resp'[t].error = "NoDocuments"
                 /\ UNCHANGED <<disk, rag_chain, vsm_vector_store>>]_vars

C6_Witness ==
    \E t \in Threads :
        /\ pc[t] = "raised" /\ resp[t].error = "NoDocuments"
        /\ ~loc[t].force
        /\ disk.status = "complete"
        /\ pdf_files(dataDir) = {}
        /\ rag_chain = None

\* C7 (as stated): documents are split only on the build path: when load is
\* attempted nothing has been split yet.
C7_SplitOnlyOnBuildPath ==
    \A t \in Threads : pc[t] = "load" => loc[t].chunks = << >>

\* C7 (amended): every initialize that finds local PDFs splits them before
\* load is attempted, whatever forceRebuild is: if splitting yields no
\* chunks it raises NoChunks without invoking load, clear or build, also when
\* a usable index is persisted; load, clear and build run only with chunks.
C7_SplitBeforeLoad ==
    /\ [](\A t \in Threads :
            (pc[t] = "load" \/ pc[t] = "clear" \/ InBuild(t)) => loc[t].chunks # << >>)
    /\ [][\A t \in Threads :
            (/\ pc[t] = "split" /\ pc'[t] \notin {"split", "idle"}
             /\ \A l \in Listings(pdf_files(dataDir)) : load_and_split_all_pdfs(l) = << >>)
                => /\ pc'[t] = "raised"
                   /\ resp'[t].error = "NoChunks"
                   /\ UNCHANGED <<disk, rag_chain, vsm_vector_store>>]_vars

C7_Witness ==
    \E t \in Threads :
        /\ pc[t] = "raised" /\ resp[t].error = "NoChunks"
        /\ ~loc[t].force
        /\ disk.status = "complete"
        /\ rag_chain = None

Permanent == {"FileNotFoundError", "PermissionError"}

\* C8: download_pdf retries only after a transient error: an attempt that
\* fails with NotFound or PermissionDenied is the only and last attempt.
C8_PermanentErrorNotRetried ==
    \A i \in DOMAIN fetch.tries :
        fetch.tries[i] \in Permanent => (i = 1 /\ fetch.pc = "done")

\* C9: one download_pdf call makes at most 3 attempts and then terminates: it
\* returns on the first successful attempt and otherwise ends in failure
\* after no more than 3 attempts.
C9_BoundedRetry ==
    /\ [](/\ Len(fetch.tries) <= 3
          /\ fetch.attempt_number <= 3
          /\ \A i \in DOMAIN fetch.tries :
                fetch.tries[i] = "ok"
                    => (i = Len(fetch.tries) /\ fetch.pc = "done" /\ fetch.result = "ok")
          /\ (fetch.pc = "done" /\ fetch.result # "ok")
                => \A i \in DOMAIN fetch.tries : fetch.tries[i] # "ok")
    /\ (fetch.pc = "attempt") ~> (fetch.pc = "done")

C9_Witness ==
    /\ fetch.pc = "done"
    /\ fetch.result # "ok"
    /\ Len(fetch.tries) = 3

\* C10: when download_pdf gives up, the error surfaced to the caller is the
\* failure of its final attempt, with that failure's kind.
C10_SurfacesFinalFailure ==
    (fetch.pc = "done" /\ fetch.result # "ok")
        => fetch.result = fetch.tries[Len(fetch.tries)]

\* the local paths of the names of listing whose result is "ok", in order
RECURSIVE Fetched(_, _)
Fetched(listing, results) ==
    IF listing = << >> \/ results = << >> THEN << >>
    ELSE (IF Head(results) = "ok" THEN <<local_file(Head(listing))>> ELSE << >>)
             \o Fetched(Tail(listing), Tail(results))

\* C11: download_all_pdfs is best-effort per item: every listed name is
\* fetched whatever happened to the names before it, and the call returns
\* exactly the local paths of the names whose fetch succeeded, in listing
\* order.
C11_BestEffortPerItem ==
    /\ batch.pc \in {"loop", "call"} => Len(batch.results) = batch.i - 1
    /\ batch.pc = "done"
          => /\ Len(batch.results) = Len(batch.pdf_files)
             /\ batch.downloaded_files = Fetched(batch.pdf_files, batch.results)

C11_Witness ==
    /\ batch.pc = "done"
    /\ Len(batch.pdf_files) = 2
    /\ batch.results = <<"RetryError", "ok">>
    /\ Len(batch.downloaded_files) = 1

\* the chunks of the files of listing that were processed, in order
RECURSIVE ChunksOfProcessed(_, _)
ChunksOfProcessed(listing, processed) ==
    IF listing = << >> \/ processed = << >> THEN << >>
    ELSE (IF Head(processed) = "ok" THEN load_and_split_pdf(Head(listing)) ELSE << >>)
             \o ChunksOfProcessed(Tail(listing), Tail(processed))

\* C12: load_and_split_all_pdfs treats a file's processing failure as
\* non-fatal: it never raises, it processes every eligible file whatever
\* happened to the files before it, it returns the concatenation of the
\* chunks of exactly the files processed successfully, and it returns an
\* empty sequence when the directory is missing or holds no .pdf file.
C12_SplitAllSkipsFailures ==
    /\ split.pc # "raised"
    /\ split.pc = "loop" => Len(split.processed) = split.i - 1
    /\ split.pc = "done"
          => /\ Len(split.processed) = Len(split.pdf_files)
             /\ \A i \in DOMAIN split.pdf_files :
                   split.processed[i] = "error" <=> Unparseable(split.pdf_files[i])
             /\ split.all_chunks = ChunksOfProcessed(split.pdf_files, split.processed)
             /\ split.all_chunks = load_and_split_all_pdfs(split.pdf_files)
             /\ (~split.exists \/ pdf_files(dataDir) = {}) => split.all_chunks = << >>

C12_Witness ==
    /\ split.pc = "done"
    /\ Len(split.pdf_files) = 3
    /\ split.processed = <<"error", "ok", "ok">>
    /\ Len(split.all_chunks) = 3

\* positions of the characters of chars that are not whitespace
Inked(chars) == {i \in DOMAIN chars : chars[i] \notin Whitespace}

\* number of characters of chars that are not whitespace
NonWhitespaceCount(chars) == Cardinality(Inked(chars))

\* number of characters from the first to the last one that is not whitespace
TrimmedLen(chars) ==
    IF Inked(chars) = {} THEN 0
    ELSE LET first == CHOOSE i \in Inked(chars) : \A j \in Inked(chars) : i <= j
             last == CHOOSE i \in Inked(chars) : \A j \in Inked(chars) : j <= i IN
         last - first + 1

\* C13 as stated: Session.query rejects the question with InvalidInput
\* unless it is a string with at least 3 non-whitespace characters
C13_RejectsUnlessThreeNonWhitespace ==
    \A k \in DOMAIN run.results :
       LET r == run.results[k] IN
       r.outcome = "InvalidInput"
          <=> ~(r.question.str /\ NonWhitespaceCount(r.question.chars) >= 3)

\* C13: Session.query rejects the question with InvalidInput unless it is a
\* string which, once leading and trailing whitespace is removed, is at least
\* 3 characters long (whitespace inside it counts), and a rejected question
\* causes no chain construction, no retrieval and no language-model call.
C13_RejectsUnlessThreeAfterTrim ==
    \A k \in DOMAIN run.results :
       LET r == run.results[k] IN
       /\ r.outcome = "InvalidInput"
             <=> ~(r.question.str /\ TrimmedLen(r.question.chars) >= 3)
       /\ r.outcome = "InvalidInput" => ~r.built /\ ~r.invoked

C13_Witness ==
    /\ run.pc = "done"
    /\ Len(run.results) = 2
    /\ run.results[1].question = Str(<<" ", "a", " ">>)
    /\ run.results[1].outcome = "InvalidInput"
    /\ run.results[2].question = Str(<<"a", " ", "a">>)
    /\ run.results[2].outcome = "answer"

\* C14: the orchestrator's query operation fails with a NotReady error
\* whenever no session exists: it does not return without an error, it
\* produces no answer and it does not initialize implicitly.
C14_QueryWithoutSessionRaisesNotReady ==
    (rag_chain = None /\ run.pc # "idle")
       => /\ run.pc = "raised"
          /\ run.results = << >>

\* which session object the orchestrator holds (its chain is the session's
\* own field)
SessionRef(session) ==
    IF session = None THEN None ELSE [vector_store |-> session.vector_store]

\* C15: a query, whether it answers or fails with invalid input or a
\* generation error, never changes orchestrator state: the active session
\* reference, the index reference and the persisted index are the same after
\* every step of a query as before it.
C15_QueryLeavesOrchestratorState ==
    [][(run_queries \/ SessionQuery \/ SessionInvoke)
          => /\ SessionRef(rag_chain') = SessionRef(rag_chain)
             /\ vsm_vector_store' = vsm_vector_store
             /\ disk' = disk
             /\ dataDir' = dataDir]_vars

C15_Witness ==
    /\ run.pc = "done"
    /\ Len(run.results) = 2
    /\ run.results[1].outcome = "InvalidInput"
    /\ run.results[2].outcome = "GenerationError"
    /\ run.results[2].built
    /\ rag_chain # None
    /\ disk = BuiltDisk

\* thread t is inside initialize_system
InInitialize(t) ==
    pc[t] \in {"embed", "scan", "split", "load", "clear", "rmtree", "makedirs", "create",
               "from_documents", "persist", "mkchain", "build_chain"}

\* the orchestrator holds a session that the call thread t is making did not
\* create
ReadyBefore(t) == rag_chain # None /\ rag_chain.vector_store.id # loc[t].call

\* C16: initialize(forceRebuild=false) is idempotent when the orchestrator
\* is already Ready: a step of a non-forced initialize taken while a session
\* exists that this call did not create leaves the active session, the index
\* reference and the persisted index as they are (no clear, no build) and
\* does not fail.
C16_UnforcedInitializeIdempotentWhenReady ==
    [][\A t \in Threads :
          (InInitialize(t) /\ ~loc[t].force /\ ReadyBefore(t) /\ pc'[t] # pc[t])
              => /\ rag_chain' = rag_chain
                 /\ vsm_vector_store' = vsm_vector_store
                 /\ disk' = disk
                 /\ pc'[t] # "raised"]_vars

\* C17: health() is a pure read in every orchestrator state: it answers 200
\* with the status, the model identifier and whether a session is loaded, and
\* the step leaves the session, the index reference, the stored documents and
\* the persisted index as they are and starts no initialization.
C17_HealthIsPureRead ==
    [][\A t \in Threads :
          health(t)
             => /\ resp'[t] = [code |-> 200, status |-> "healthy",
                               vector_store_loaded |-> rag_chain # None,
                               model |-> LLM_MODEL]
                /\ pc'[t] = "done"
                /\ \A u \in Threads \ {t} : pc'[u] = pc[u]
                /\ rag_chain' = rag_chain
                /\ vsm_vector_store' = vsm_vector_store
                /\ dataDir' = dataDir
                /\ disk' = disk]_vars

C17_Witness ==
    \E t \in Threads, u \in Threads :
       /\ pc[t] = "done"
       /\ resp[t].code = 200
       /\ resp[t].status = "healthy"
       /\ ~resp[t].vector_store_loaded
       /\ rag_chain = None
       /\ pc[u] = "rmtree"

\* C18: after any sequence of upload requests (web or API), every file in
\* the local document directory has a name ending in .pdf, whatever the
\* case; and once an upload of name n has been answered as successful,
\* listLocalDocuments includes n.
C18_UploadsOnlyPdfAndListed ==
    /\ \A f \in dataDir : EndsWithPdf(f)
    /\ \A t \in Threads :
          (pc[t] = "done" /\ resp[t].code = 200 /\ "filename" \in DOMAIN resp[t])
              => \E n \in listLocalDocuments : <<n>> = resp[t].filename

\* C19: when an initialize(forceRebuild=true) returns successfully the persisted
\* index holds exactly the chunks obtained by splitting the current local
\* documents, each once: nothing of the previous index is left, nothing is
\* duplicated, so a second forced rebuild of the same documents gives the
\* same chunk count.
C19_ForcedRebuildYieldsExactlyCurrentChunks ==
    [][\A t \in Threads :
          (pc[t] = "build_chain" /\ pc'[t] = "returned" /\ loc[t].force)
             => \E listing \in Listings(pdf_files(dataDir)) :
                   /\ disk'.chunks = BagOf(load_and_split_all_pdfs(listing))
                   /\ disk'.status = "complete"]_vars

\* the failures of steps 1 to 4: no embedder, no local document, no chunk
EarlyErrors == {"ModelUnavailable", "NoDocuments", "NoChunks"}

\* C20: an initialize call that fails because the embedder cannot be
\* obtained, because there is no local document or because splitting gives
\* no chunk, aborts before clear() and build(): the failure is raised from
\* steps 1 to 4, no step of the call up to there touches the persisted index,
\* the index objects or the session, and the error goes to the caller.
C20_EarlyFailureLeavesIndexUntouched ==
    [][\A t \in Threads :
          /\ (pc[t] \in {"embed", "scan", "split"} /\ pc'[t] \notin {pc[t], "idle"})
                => /\ disk' = disk
                   /\ vsm_vector_store' = vsm_vector_store
                   /\ rag_chain' = rag_chain
          /\ (pc[t] # "raised" /\ pc'[t] = "raised" /\ resp'[t].error \in EarlyErrors)
                => /\ pc[t] \in {"embed", "scan", "split"}
                   /\ loc'[t].call = loc[t].call
          /\ (pc[t] = "raised" /\ pc'[t] = "done" /\ resp[t].error \in EarlyErrors)
                => /\ resp'[t].code = 500
                   /\ resp'[t].error = resp[t].error]_vars

C20_Witness ==
    \E t \in Threads :
       /\ pc[t] = "raised"
       /\ resp[t].error = "NoChunks"
       /\ loc[t].force
       /\ disk.status = "complete"
       /\ disk.chunks = BagOf(load_and_split_pdf("a.pdf"))

\* a statement of initialize_system executed by thread t
InitializeStep(t) ==
    \/ InitializeEmbeddings(t)
    \/ ScanPdfFiles(t)
    \/ SplitPdfs(t)
    \/ load_vector_store(t)
    \/ ClearCheck(t)
    \/ RmTree(t)
    \/ MakeDirs(t)
    \/ FromDocumentsBegin(t)
    \/ FromDocumentsEnd(t)
    \/ Persist(t)
    \/ MkChain(t)
    \/ BuildChain(t)

\* how far into initialize_system a statement is
Rank(label) ==
    CASE label = "embed" -> 1
      [] label = "scan" -> 2
      [] label = "split" -> 3
      [] label \in {"load", "clear"} -> 4
      [] label = "rmtree" -> 5
      [] label = "makedirs" -> 6
      [] label = "create" -> 7
      [] label = "from_documents" -> 8
      [] label = "persist" -> 9
      [] label = "mkchain" -> 10
      [] label = "build_chain" -> 11
      [] OTHER -> 12

\* the orchestrator holds a session whose chain is built
Ready == rag_chain # None /\ rag_chain.chain

\* what the call of thread t needs from outside is there: a document that
\* gives chunks, and the index directory that rmtree is about to remove
Workable(t) ==
    /\ \E d \in pdf_files(dataDir) : ~Unparseable(d) /\ load_and_split_pdf(d) # << >>
    /\ pc[t] = "rmtree" => disk.exists

\* C21: no earlier failure leaves the orchestrator unable to become Ready:
\* whatever happened before, at every statement of a later initialize the
\* continuation without an error exists when documents are present and the
\* embedder, the index storage and the session construction work; every such
\* continuation is further into the call, and the call that returns leaves
\* the orchestrator Ready.
C21_InitializeCanRetryAfterFailure ==
    [][\A t \in Threads :
          /\ (InInitialize(t) /\ Workable(t))
                => ENABLED (InitializeStep(t) /\ pc'[t] # "raised")
          /\ (InInitialize(t) /\ pc'[t] \notin {pc[t], "raised", "idle"})
                => Rank(pc'[t]) > Rank(pc[t])
          /\ (InInitialize(t) /\ pc'[t] = "returned") => Ready']_vars

C21_Witness ==
    \E t \in Threads, u \in Threads :
       /\ pc[u] = "raised"
       /\ resp[u].error = "ChainError"
       /\ pc[t] = "returned"
       /\ loc[u].call < loc[t].call
       /\ Ready
       /\ disk.status = "complete"

\* C22: load fails with NotFound whenever no persisted index exists at the
\* configured location (never built, or cleared): a load_vector_store step
\* taken in that situation returns no index and assigns none.
C22_LoadFailsWithoutPersistedIndex ==
    [][\A t \in Threads :
          (pc[t] = "load" /\ disk.status \in {"none", "cleared"} /\ pc'[t] \notin {"load", "idle"})
              => /\ pc'[t] = "create"
                 /\ vsm_vector_store' = vsm_vector_store]_vars

\* C23: clear() is idempotent: it raises no error, also when nothing is
\* persisted, and after two calls in a row the persisted location is in the
\* state the first call left it in, which holds no index data.
C23_ClearIsIdempotent ==
    \A t \in Threads :
       /\ pc[t] # "raised"
       /\ (pc[t] = "done" /\ "second" \in DOMAIN resp[t])
             => /\ resp[t].second = resp[t].first
                /\ resp[t].first.chunks = EmptyBag
                /\ resp[t].first.status \notin {"complete", "partial"}

C23_Witness ==
    \E t \in Threads :
       /\ pc[t] = "done"
       /\ "second" \in DOMAIN resp[t]
       /\ resp[t].second = [exists |-> TRUE, chunks |-> EmptyBag, status |-> "cleared"]

\* C24: Session.query invokes the language-model chain at most once per
\* call: the invocation is reached only from the input check of the query,
\* and whatever it gives, an answer or a generation failure, goes to the
\* caller at once; the query is not started again.
C24_InvokeAtMostOncePerQuery ==
    [][\A t \in Threads :
          /\ (pc[t] # "invoke" /\ pc'[t] = "invoke") => pc[t] = "query"
          /\ (pc[t] = "invoke" /\ pc'[t] \notin {"invoke", "idle"})
                => /\ pc'[t] = "done"
                   /\ \/ resp'[t].code = 200 /\ resp'[t].answer
                      \/ resp'[t] = [code |-> 500, error |-> "GenerationError"]]_vars

C24_Witness ==
    \E t \in Threads :
       /\ pc[t] = "done"
       /\ resp[t] = [code |-> 500, error |-> "GenerationError"]
       /\ Ready

\* failures of the language model or of its construction
GenerationFaults == {"ChainError", "GenerationError"}

BadQuestion(q) == q = NoQuestion \/ ~(q.str /\ TrimmedLen(q.chars) >= 3)

\* the step answers a POST /api/ask without calling the RAG system
RefusedAsk(t) ==
    pc[t] = "idle" /\ pc'[t] = "done" /\ "request" \in DOMAIN resp'[t]

C27_BuildRejectsEmptyChunks ==
    [][\A t \in Threads :
          (/\ pc[t] \in {"create", "from_documents", "persist"}
           /\ loc[t].chunks = << >>
           /\ pc'[t] \notin {pc[t], "idle"})
              => /\ pc'[t] = "raised"
                 /\ disk' = disk
                 /\ vsm_vector_store' = vsm_vector_store]_vars

\* C28: the session reference rag_chain becomes non-None, or is replaced, only
\* by an initialize_system call that returns successfully: a call that raised
\* has not left its own session in rag_chain, so health and the auto-init
\* wrapper do not take the orchestrator for initialized by that call.
C28_SessionSetOnlyBySuccessfulInit ==
    \A t \in Threads :
        pc[t] = "raised"
            => (rag_chain = None \/ rag_chain.vector_store.id # loc[t].call)

\* C29: a web upload request that is rejected because one of its files is not
\* a .pdf leaves the local document directory unchanged: the step that
\* answers 'Invalid file type' stores none of the files of the request.
C29_RejectedUploadStoresNothing ==
    [][\A t \in Threads :
          (/\ pc[t] = "idle"
           /\ pc'[t] = "done"
           /\ "error" \in DOMAIN resp'[t]
           /\ resp'[t].error = "Invalid file type")
              => dataDir' = dataDir /\ parentDir' = parentDir]_vars

\* C30: when initialize(forceRebuild=false) falls through to build after a
\* failed load, the index the build hands back holds exactly the chunks of
\* the current local documents, each once: nothing that was at the persisted
\* location before the build is part of it.
C30_FallThroughBuildYieldsExactlyCurrentChunks ==
    [][\A t \in Threads :
          (/\ pc[t] = "persist"
           /\ pc'[t] = "mkchain"
           /\ req[t] \in {"ask", "rebuild", "init"}
           /\ ~loc[t].force)
              => /\ loc'[t].vector_store.chunks = BagOf(loc[t].chunks)
                 /\ disk'.chunks = BagOf(loc[t].chunks)]_vars

\* the call of thread t holds an index that it got from load_vector_store
Loaded(t) ==
    /\ pc[t] \in {"mkchain", "build_chain"}
    /\ ~loc[t].force
    /\ loc[t].vector_store # None

SessionOnCurrentIndex ==
    rag_chain # None => rag_chain.vector_store = vsm_vector_store

QueryErrors == {"InvalidInput", "ChainError", "GenerationError"}

\* C33: run_queries on an initialized system returns exactly one result per
\* input question, in input order: an answer entry when the query succeeded
\* and an error entry when it failed; a failing question never prevents the
\* remaining questions from being asked.
C33_OneResultPerQuestionInOrder ==
    (rag_chain # None /\ run.pc # "idle")
       => /\ run.pc \in {"query", "invoke", "done"}
          /\ Len(run.results) = (IF run.pc = "done" THEN Len(run.questions) ELSE run.i - 1)
          /\ \A i \in DOMAIN run.results :
                /\ run.results[i].question = run.questions[i]
                /\ run.results[i].outcome \in QueryErrors \cup {"answer"}
                /\ run.results[i].outcome = "answer" <=> run.results[i].answer # None
                /\ run.results[i].outcome \in QueryErrors <=> run.results[i].answer = None

\* the first question failed in generation and the second was answered
C33_Witness ==
    /\ run.pc = "done"
    /\ Len(run.questions) = 2
    /\ Len(run.results) = 2
    /\ run.results[1].outcome = "GenerationError"
    /\ run.results[2].outcome = "answer"
    /\ run.results[2].answer # None

\* C34: a web upload request that stores at least one file invokes
\* initialize(forceRebuild=true) exactly once, after all files of the request
\* have been stored; a failure of that rebuild does not remove the stored
\* files and the request still reports the upload.
C34_StoringUploadRebuildsOnce ==
    [][\A t \in Threads :
          /\ (upload(t) /\ (dataDir' # dataDir \/ parentDir' # parentDir))
                => /\ pc'[t] = "embed"
                   /\ loc'[t].force
          /\ (req[t] = "upload" /\ pc[t] \in {"returned", "raised"} /\ pc'[t] # pc[t])
                => /\ pc'[t] = "done"
                   /\ resp'[t].code = 200
                   /\ dataDir' = dataDir
                   /\ parentDir' = parentDir]_vars

====
